---- MODULE Spec2Model ----
(***************************************************************************)
(* ofxLlamaCpp: the asynchronous generation wrapper (src/src/ofxLlamaCpp)  *)
(* and the conversation state machine of example_chat (ofApp).             *)
(*                                                                         *)
(* Two threads: the consumer (the openFrameworks frame loop and its event  *)
(* handlers) and at most one generationLoop worker.  Text is a sequence of *)
(* one-character strings, so that suffix tests, rfind and erase are        *)
(* computed as std::string computes them.  The inference engine is opaque: *)
(* its reply to a prompt is a sequence of token pieces drawn from the set  *)
(* `replies` of the loaded model, and every llama_decode may fail.         *)
(* Plain bool members read by the other thread (generating, requestStop)   *)
(* are read at their current value; a process abort is a behaviour that    *)
(* stops.                                                                  *)
(***************************************************************************)
EXTENDS Integers, Sequences, FiniteSets, TLC

VARIABLES
    \* ---- ofxLlamaCpp members (ofxLlamaCpp.h:157-205)
    model,            \* llama_model* is non-null
    ctx,              \* llama_context* is non-null
    sampler,          \* llama_sampler* is non-null
    stopWords,        \* std::vector<std::string>
    max_gen_tokens,   \* int
    generating,       \* bool
    requestStop,      \* bool
    pendingOut,       \* std::string, guarded by mtx
    mtx,              \* std::mutex mtx: the thread that holds it between two steps
    currentPrompt,    \* std::string; a prompt is the number of tokens it tokenizes to
    worker,           \* std::thread member is joinable
    tokenCallback,    \* std::function member holds a target
    finishCallback,   \* std::function member holds a target
    \* ---- the engine's side of the handle's pointers
    engine,           \* allocated llama objects of each kind, and a fault flag
    \* ---- the threads running generationLoop and the worker's locals
    alive,            \* number of threads inside generationLoop
    wpc,              \* position of the worker in generationLoop
    ntokens,          \* tokens.size()
    n_past,           \* int n_past
    t,                \* loop counter of the token loop
    generated,        \* std::string generated
    script,           \* pieces the engine will still sample in this session
    ended,            \* how the sessions so far have ended, as a caller sees it
    batches,          \* the llama_batch of each prompt decode of this thread, in order
    invoked,          \* calls of each callback made by the thread of this session
    \* ---- the engine
    replies,          \* replies the loaded model file can give
    \* ---- the consumer thread
    cpc,              \* position of the consumer thread
    call,             \* arguments and continuation of the library call in progress
    polled,           \* concatenation of the getNewOutput() results of this session
    returned,         \* what the last call of a caller that looks at results gave back
    sessionMax,       \* the maxTokens that caller passed for the current session
    \* ---- example_chat ofApp members (ofApp.h:57-93)
    ready,
    currentState,
    wasGenerating,
    chatHistory,
    conversationSummary,
    temp_summary_output,
    input,
    selectedTemplate  \* templateDropdown->selectedValue

libVars    == <<engine, model, ctx, sampler, stopWords, max_gen_tokens,
                generating, requestStop, pendingOut, mtx, currentPrompt, worker>>
callbacks  == <<tokenCallback, finishCallback>>
workerVars == <<ended, invoked, alive, wpc, ntokens, batches, n_past, t, generated,
                script>>
apiVars    == <<returned, sessionMax>>
consVars   == <<cpc, call, polled>>
appVars    == <<ready, currentState, wasGenerating, chatHistory,
                conversationSummary, temp_summary_output, input, selectedTemplate>>
vars       == <<libVars, callbacks, workerVars, consVars, apiVars, appVars, replies>>

----------------------------------------------------------------------------
(* Bounds of the model *)

MaxTokens    == 3    \* largest maxTokens a caller passes
MaxPrompt    == 2    \* largest number of prompt tokens
MaxStopWords == 1    \* largest number of configured stop words
MaxHistory   == 13   \* no submission is made beyond this many messages
N_BATCH      == 1    \* llama_n_batch(ctx): prompt tokens decoded per batch
N_CTX        == 8    \* llama_n_ctx(ctx): positions the context has room for

(* Program constants *)

DEFAULT_MAX_GEN_TOKENS == 200
CHAT_HISTORY_LIMIT == 8
SUMMARY_INTERVAL   == 4

----------------------------------------------------------------------------
(* Text *)

\* s.compare(s.size() - w.size(), w.size(), w) == 0, guarded by s.size() >= w.size()
EndsWith(s, w) ==
    /\ Len(s) >= Len(w)
    /\ SubSeq(s, Len(s) - Len(w) + 1, Len(s)) = w

\* std::string::rfind(w): the largest position (from 0) at which w occurs in s,
\* -1 for npos.  The empty string is found at s.size().
Rfind(s, w) ==
    LET hits == { p \in 0..(Len(s) - Len(w)) : SubSeq(s, p + 1, p + Len(w)) = w }
    IN  IF hits = {} THEN -1 ELSE CHOOSE p \in hits : \A q \in hits : q <= p

\* std::string::erase(pos): drops everything from position pos (from 0) on
Erase(s, pos) == SubSeq(s, 1, pos)

----------------------------------------------------------------------------
(* Token pieces, replies and stop words the model draws from *)

PieceA   == <<"a">>
PieceEN  == <<"E", "N">>
PieceD   == <<"D">>
PieceEND == <<"E", "N", "D">>
PieceNone == <<>>            \* llama_token_to_piece returned n <= 0

StopWordChoices == {PieceEND, <<>>}

\* Replies of the engine: a reply is the sequence of pieces sampled before the
\* end-of-sequence token.
LibReplies ==
    { <<>>,
      <<PieceA, PieceEN, PieceD, PieceA>>,
      <<PieceEND, PieceA>>,
      <<PieceNone, PieceA, PieceA, PieceA>> }

NoCall == [prompt |-> 0, maxTokens |-> 0, ret |-> "idle"]

\* no callback has been called
NoneInvoked == [tokenCallback |-> 0, finishCallback |-> 0]

\* a caller's record of a call that has returned: which call, what the call did
\* (which the caller cannot see) and the value it handed back
Returned(c, did, v) == [call |-> c, did |-> did, value |-> v]
NothingReturned == Returned("none", "nothing", "void")

----------------------------------------------------------------------------
(* ofxLlamaCpp: pure helpers *)

\* variant: the stop word is compared with the whole text, not with its suffix
checkStopSequencesWholeText(s) ==
    \E i \in 1..Len(stopWords) :
        /\ stopWords[i] # <<>>
        /\ s = stopWords[i]

\* ofxLlamaCpp::checkStopSequences
checkStopSequences(s) ==
    \E i \in 1..Len(stopWords) :
        /\ stopWords[i] # <<>>
        /\ EndsWith(s, stopWords[i])

\* ofxLlamaCpp::isGenerating
isGenerating == generating

\* std::lock_guard<std::mutex> lock(mtx) around the shared accesses of a step
\* (lines 374, 409, 425, 487): the step is taken once no thread holds the mutex,
\* and the guard has released it when the step ends
lock_guard == mtx = "none" /\ mtx' = "none"

\* ofxLlamaCpp::isModelLoaded
isModelLoaded == model /\ ctx

----------------------------------------------------------------------------
(* generationLoop, one action per step between two accesses to shared state *)

\* What a caller can see of a session that has ended without reading its text:
\* isGenerating().  `abnormal` tells how the thread left generationLoop: by one
\* of the returns after a failed llama_decode, or at the end of the function.
EndSeen(flag, failed) == [isGenerating |-> flag, abnormal |-> failed]

\* The thread leaves generationLoop: its locals are gone.  `generated` and `t`
\* are kept as the record of what the session produced.
ThreadEnds ==
    /\ alive' = alive - 1
    /\ wpc' = "done"
    /\ ntokens' = 0
    /\ batches' = <<>>
    /\ n_past' = 0
    /\ script' = <<>>

\* variant: the error path returns without clearing the flag
DecodeFailedKeepsFlag ==
    /\ ThreadEnds
    /\ ended' = ended \cup {EndSeen(generating, TRUE)}
    /\ UNCHANGED <<invoked, t, generated, pendingOut, mtx, generating>>

\* variant: the error path also discards the text not yet polled
DecodeFailedDropsOutput ==
    /\ generating' = FALSE
    /\ ThreadEnds
    /\ ended' = ended \cup {EndSeen(FALSE, TRUE)}
    /\ pendingOut' = <<>>
    /\ UNCHANGED <<invoked, t, generated, mtx>>

\* lines 449-454 and 506-511: a failed llama_decode
DecodeFailed ==
    /\ generating' = FALSE
    /\ ThreadEnds
    /\ ended' = ended \cup {EndSeen(FALSE, TRUE)}
    /\ UNCHANGED <<invoked, t, generated, pendingOut, mtx>>

\* a break out of the token loop, or its condition failing: line 517
LoopExit ==
    /\ generating' = FALSE
    /\ wpc' = "finish"
    /\ UNCHANGED <<ended, invoked, alive, ntokens, batches, n_past, t, generated, script, pendingOut, mtx>>

\* lines 418-431: resetContext, copy of the prompt under mtx, tokenize
W_Begin ==
    /\ wpc = "begin"
    /\ lock_guard
    /\ ntokens' = currentPrompt
    /\ batches' = <<>>
    /\ n_past' = 0
    /\ t' = 0
    /\ generated' = <<>>
    /\ script' \in replies
    /\ wpc' = IF currentPrompt > 0 THEN "prompt" ELSE "loop"
    /\ UNCHANGED <<ended, invoked, alive, engine, model, ctx, sampler, stopWords,
                   max_gen_tokens, generating, requestStop, pendingOut,
                   currentPrompt, worker, consVars, appVars, replies, callbacks, apiVars>>

\* variant: logits are requested for the last token of every batch
PromptBatchLogitsPerBatch(past, n_eval, size) ==
    [i \in 1..n_eval |->
        [token  |-> past + i - 1,
         pos    |-> past + i - 1,
         logits |-> (i = n_eval)]]

\* lines 437-446: the batch of n_eval prompt tokens that starts at token `past`
\* of `size`; a token is named by its index in `tokens`
PromptBatch(past, n_eval, size) ==
    [i \in 1..n_eval |->
        [token  |-> past + i - 1,
         pos    |-> past + i - 1,
         logits |-> (past + i - 1 = size - 1)]]

\* llama_decode takes a batch only if the context has room for its positions,
\* and returns non-zero otherwise
Fits(last_pos) == last_pos < N_CTX

\* lines 433-458: one batch of the prompt
W_Prompt ==
    /\ wpc = "prompt"
    /\ LET n_eval == IF ntokens - n_past < N_BATCH THEN ntokens - n_past ELSE N_BATCH
       IN  \/ DecodeFailed
           \/ /\ Fits(n_past + n_eval - 1)
              /\ batches' = Append(batches, PromptBatch(n_past, n_eval, ntokens))
              /\ n_past' = n_past + n_eval
              /\ wpc' = IF n_past + n_eval < ntokens THEN "prompt" ELSE "loop"
              /\ UNCHANGED <<ended, invoked, alive, ntokens, t, generated, script,
                             generating, pendingOut, mtx>>
    /\ UNCHANGED <<engine, model, ctx, sampler, stopWords, max_gen_tokens, requestStop,
                   currentPrompt, worker, consVars, appVars, replies, callbacks, apiVars>>

\* variant: the loop tests its bound only, never the stop flag
W_LoopIgnoresStop ==
    /\ wpc = "loop"
    /\ IF t < max_gen_tokens
       THEN /\ wpc' = "sample"
            /\ UNCHANGED <<ended, invoked, alive, ntokens, batches, n_past, t, generated, script,
                           generating, pendingOut, mtx>>
       ELSE LoopExit
    /\ UNCHANGED <<engine, model, ctx, sampler, stopWords, max_gen_tokens, requestStop,
                   currentPrompt, worker, consVars, appVars, replies, callbacks, apiVars>>

\* lines 463-465: the loop condition and the stop flag
W_Loop ==
    /\ wpc = "loop"
    /\ IF t < max_gen_tokens /\ ~requestStop
       THEN /\ wpc' = "sample"
            /\ UNCHANGED <<ended, invoked, alive, ntokens, batches, n_past, t, generated, script,
                           generating, pendingOut, mtx>>
       ELSE LoopExit
    /\ UNCHANGED <<engine, model, ctx, sampler, stopWords, max_gen_tokens, requestStop,
                   currentPrompt, worker, consVars, appVars, replies, callbacks, apiVars>>

\* variant: a piece that completes a stop word is held back from pendingOut
W_SampleHoldsBack ==
    /\ wpc = "sample"
    /\ IF script = <<>>
       THEN LoopExit
       ELSE /\ lock_guard
            /\ pendingOut' = IF checkStopSequences(generated \o Head(script))
                             THEN pendingOut
                             ELSE pendingOut \o Head(script)
            /\ generated' = generated \o Head(script)
            /\ script' = Tail(script)
            /\ wpc' = "check"
            /\ UNCHANGED <<ended, invoked, alive, ntokens, batches, n_past, t, generating>>
    /\ UNCHANGED <<engine, model, ctx, sampler, stopWords, max_gen_tokens, requestStop,
                   currentPrompt, worker, consVars, appVars, replies, callbacks, apiVars>>

\* lines 468-491: sample, end-of-sequence test, piece, append under mtx
W_Sample ==
    /\ wpc = "sample"
    /\ IF script = <<>>
       THEN LoopExit
       ELSE /\ lock_guard
            /\ pendingOut' = pendingOut \o Head(script)
            /\ generated' = generated \o Head(script)
            /\ script' = Tail(script)
            /\ wpc' = "check"
            /\ UNCHANGED <<ended, invoked, alive, ntokens, batches, n_past, t, generating>>
    /\ UNCHANGED <<engine, model, ctx, sampler, stopWords, max_gen_tokens, requestStop,
                   currentPrompt, worker, consVars, appVars, replies, callbacks, apiVars>>

\* variant: the sampled token is decoded before the stop-word test
W_CheckAfterDecode ==
    /\ wpc = "check"
    /\ IF checkStopSequences(generated)
       THEN /\ generating' = FALSE
            /\ wpc' = "finish"
            /\ n_past' = n_past + 1
            /\ UNCHANGED <<ended, invoked, alive, ntokens, batches, t, generated, script, pendingOut, mtx>>
       ELSE /\ wpc' = "decode"
            /\ UNCHANGED <<ended, invoked, alive, ntokens, batches, n_past, t, generated, script,
                           generating, pendingOut, mtx>>
    /\ UNCHANGED <<engine, model, ctx, sampler, stopWords, max_gen_tokens, requestStop,
                   currentPrompt, worker, consVars, appVars, replies, callbacks, apiVars>>

\* line 493
W_Check ==
    /\ wpc = "check"
    /\ IF checkStopSequences(generated)
       THEN LoopExit
       ELSE /\ wpc' = "decode"
            /\ UNCHANGED <<ended, invoked, alive, ntokens, batches, n_past, t, generated, script,
                           generating, pendingOut, mtx>>
    /\ UNCHANGED <<engine, model, ctx, sampler, stopWords, max_gen_tokens, requestStop,
                   currentPrompt, worker, consVars, appVars, replies, callbacks, apiVars>>

\* lines 496-514: decode of the sampled token
W_Decode ==
    /\ wpc = "decode"
    /\ \/ DecodeFailed
       \/ /\ Fits(n_past)
          /\ n_past' = n_past + 1
          /\ t' = t + 1
          /\ wpc' = "loop"
          /\ UNCHANGED <<ended, invoked, alive, ntokens, batches, generated, script,
                         generating, pendingOut, mtx>>
    /\ UNCHANGED <<engine, model, ctx, sampler, stopWords, max_gen_tokens, requestStop,
                   currentPrompt, worker, consVars, appVars, replies, callbacks, apiVars>>

\* line 518 and the return
W_Finish ==
    /\ wpc = "finish"
    /\ ThreadEnds
    /\ ended' = ended \cup {EndSeen(generating, FALSE)}
    /\ invoked' = IF finishCallback
                  THEN [invoked EXCEPT !.finishCallback = @ + 1]
                  ELSE invoked
    /\ UNCHANGED <<t, generated, libVars, consVars, appVars, replies, callbacks, apiVars>>

Worker == W_Begin \/ W_Prompt \/ W_Loop \/ W_Sample \/ W_Check \/ W_Decode \/ W_Finish

----------------------------------------------------------------------------
(* ofxLlamaCpp: operations called on the consumer thread *)

\* variant: the stop is a request only, nothing is waited for
JoinReturnsNoWait == TRUE

\* worker.join() returns once the thread has left generationLoop; a thread
\* object that is not joinable is not waited for (lines 393-395)
JoinReturns == ~worker \/ wpc = "done"

\* The engine: llama_model_load_from_file, llama_init_from_model and
\* llama_sampler_chain_init allocate an object; llama_sampler_free, llama_free
\* and llama_model_free release one.  Releasing an object that is not allocated,
\* or a model that still has a context, is a fault.
NoEngineObjects == [model |-> 0, ctx |-> 0, sampler |-> 0, fault |-> FALSE]

Create(e, x) == [e EXCEPT ![x] = @ + 1]

Free(e, x) ==
    [e EXCEPT ![x] = @ - 1,
              !.fault = @ \/ e[x] <= 0 \/ (x = "model" /\ e.ctx > 0)]

RECURSIVE FreeAll(_, _)
FreeAll(e, xs) == IF xs = <<>> THEN e ELSE FreeAll(Free(e, Head(xs)), Tail(xs))

\* variant: the three frees without their null tests
unloadFreesUnguarded == <<"sampler", "ctx", "model">>

\* the free calls unload() makes, in order: lines 116-121
unloadFrees ==
    (IF sampler THEN <<"sampler">> ELSE <<>>)
    \o (IF ctx THEN <<"ctx">> ELSE <<>>)
    \o (IF model THEN <<"model">> ELSE <<>>)

\* ofxLlamaCpp::unload
unload ==
    /\ engine' = FreeAll(engine, unloadFrees)
    /\ sampler' = FALSE
    /\ ctx' = FALSE
    /\ model' = FALSE

\* variant: a failed context creation returns without releasing the model
loadModelKeepsModel(outcome) ==
    LET unloaded == FreeAll(engine, unloadFrees)
    IN  CASE outcome = "bad_model" ->
               /\ engine' = unloaded
               /\ model' = FALSE /\ ctx' = FALSE /\ sampler' = FALSE
          [] outcome = "bad_ctx" ->
               /\ engine' = Create(unloaded, "model")
               /\ model' = TRUE /\ ctx' = FALSE /\ sampler' = FALSE
          [] OTHER ->
               /\ engine' = Create(Create(Create(unloaded, "model"), "ctx"), "sampler")
               /\ model' = TRUE /\ ctx' = TRUE /\ sampler' = TRUE

\* ofxLlamaCpp::loadModel; outcome is what the engine answers: the model file
\* cannot be loaded (lines 80-84), the context cannot be created (98-105), or
\* both succeed and the sampler is built (109)
loadModel(outcome) ==
    LET unloaded == FreeAll(engine, unloadFrees)
    IN  CASE outcome = "bad_model" ->
               /\ engine' = unloaded
               /\ model' = FALSE /\ ctx' = FALSE /\ sampler' = FALSE
          [] outcome = "bad_ctx" ->
               /\ engine' = Free(Create(unloaded, "model"), "model")
               /\ model' = FALSE /\ ctx' = FALSE /\ sampler' = FALSE
          [] OTHER ->
               /\ engine' = Create(Create(Create(unloaded, "model"), "ctx"), "sampler")
               /\ model' = TRUE /\ ctx' = TRUE /\ sampler' = TRUE

\* ofxLlamaCpp::buildSampler: the old sampler is freed if there is one
buildSampler ==
    /\ engine' = Create(IF sampler THEN Free(engine, "sampler") ELSE engine, "sampler")
    /\ sampler' = TRUE

\* ofxLlamaCpp::startGeneration up to the join: lines 370-372 and 391
LibStartCall(p, n, ret) ==
    IF ~ctx
    THEN /\ cpc' = ret
         /\ UNCHANGED <<requestStop, call>>
    ELSE /\ requestStop' = TRUE
         /\ cpc' = "start_join"
         /\ call' = [prompt |-> p, maxTokens |-> n, ret |-> ret]

\* variant: the start does not clear the text left unread
LibStartJoinKeepsPending ==
    /\ cpc = "start_join"
    /\ JoinReturns
    /\ lock_guard
    /\ currentPrompt' = call.prompt
    /\ pendingOut' = pendingOut
    /\ max_gen_tokens' = call.maxTokens
    /\ generating' = TRUE
    /\ requestStop' = FALSE
    /\ worker' = TRUE
    /\ alive' = alive + 1
    /\ wpc' = "begin"
    /\ ntokens' = 0
    /\ batches' = <<>>
    /\ n_past' = 0
    /\ t' = 0
    /\ generated' = <<>>
    /\ script' = <<>>
    /\ invoked' = NoneInvoked
    /\ UNCHANGED ended
    /\ polled' = <<>>
    /\ cpc' = call.ret
    /\ call' = NoCall
    /\ UNCHANGED <<engine, model, ctx, sampler, stopWords, replies, callbacks>>

\* ofxLlamaCpp::startGeneration from the join on: lines 393-395 and 374-384
LibStartJoin ==
    /\ cpc = "start_join"
    /\ JoinReturns
    /\ lock_guard
    /\ currentPrompt' = call.prompt
    /\ pendingOut' = <<>>
    /\ max_gen_tokens' = call.maxTokens
    /\ generating' = TRUE
    /\ requestStop' = FALSE
    /\ worker' = TRUE
    /\ alive' = alive + 1
    /\ wpc' = "begin"
    /\ ntokens' = 0
    /\ batches' = <<>>
    /\ n_past' = 0
    /\ t' = 0
    /\ generated' = <<>>
    /\ script' = <<>>
    /\ invoked' = NoneInvoked
    /\ UNCHANGED ended
    /\ polled' = <<>>
    /\ cpc' = call.ret
    /\ call' = NoCall
    /\ UNCHANGED <<engine, model, ctx, sampler, stopWords, replies, callbacks>>

\* variant: stopGeneration takes mtx before it sets the flag and joins
LibStopCallHoldsMtx(ret) ==
    /\ mtx = "none"
    /\ mtx' = "consumer"
    /\ requestStop' = TRUE
    /\ cpc' = "stop_join"
    /\ call' = [NoCall EXCEPT !.ret = ret]

\* ofxLlamaCpp::stopGeneration up to the join: line 391; mtx is not taken
LibStopCall(ret) ==
    /\ requestStop' = TRUE
    /\ cpc' = "stop_join"
    /\ call' = [NoCall EXCEPT !.ret = ret]
    /\ UNCHANGED mtx

\* ofxLlamaCpp::stopGeneration, the join: lines 393-395
LibStopJoin ==
    /\ cpc = "stop_join"
    /\ JoinReturns
    /\ worker' = FALSE
    /\ cpc' = call.ret
    /\ call' = NoCall

\* variant: the buffer is returned and not cleared
getNewOutputKeeps == lock_guard /\ pendingOut' = pendingOut

\* ofxLlamaCpp::getNewOutput: returns pendingOut and clears it, under mtx
getNewOutput == lock_guard /\ pendingOut' = <<>>

\* The step runs inside a std::lock_guard<std::mutex> lock(mtx) scope:
\* startGeneration lines 374-381, getNewOutput lines 408-411 (as called by the
\* two examples), generationLoop lines 424-427 and 486-489
MtxHeld ==
    \/ cpc = "start_join" /\ cpc' # "start_join"
    \/ cpc = "idle" /\ cpc' \in {"idle", "upd_check"} /\ pendingOut' = <<>>
    \/ wpc = "begin" /\ wpc' # "begin"
    \/ wpc = "sample" /\ wpc' = "check"

\* The step is a call of llama_decode by the worker, failed or not: a prompt
\* batch (line 449) or the decode of a sampled token (line 506)
DecodeCall ==
    /\ wpc \in {"prompt", "decode"}
    /\ wpc' # wpc \/ n_past' # n_past

\* The thread in generationLoop is past its resetContext (line 421) and has
\* not returned
PastReset == wpc \in {"prompt", "loop", "sample", "check", "decode", "finish"}

\* llama_memory_seq_pos_max(mem, 0), the largest position held in sequence 0,
\* for a context that only this thread has decoded into since its resetContext
\* emptied the sequence: the thread has put the positions 0..n_past-1 there
\* (lines 441, 456, 500, 514), and the engine answers -1 for an empty sequence
seq_pos_max == n_past - 1

\* ofxLlamaCpp::getContextSize (line 142)
getContextSize == IF ctx THEN N_CTX ELSE 0

\* ofxLlamaCpp::getContextFillRatio with a context (lines 303-307):
\* float(mx) / float(getContextSize()), kept as numerator and denominator
getContextFillRatio == [num |-> seq_pos_max, den |-> getContextSize]

----------------------------------------------------------------------------
(* A consumer that calls the library directly, as example_basics does *)

LoadModel ==
    /\ cpc = "idle"
    /\ \E outcome \in {"ok", "bad_model", "bad_ctx"} : loadModel(outcome)
    /\ UNCHANGED <<stopWords, max_gen_tokens, generating, requestStop, pendingOut, mtx,
                   currentPrompt, worker, workerVars, consVars, appVars, replies, callbacks, apiVars>>

Unload ==
    /\ cpc = "idle"
    /\ unload
    /\ UNCHANGED <<stopWords, max_gen_tokens, generating, requestStop, pendingOut, mtx,
                   currentPrompt, worker, workerVars, consVars, appVars, replies, callbacks, apiVars>>

\* setTemperature, setTopP, setTopK, set...Penalty: lines 180-185
SetSampling ==
    /\ cpc = "idle"
    /\ buildSampler
    /\ UNCHANGED <<model, ctx, stopWords, max_gen_tokens, generating, requestStop,
                   pendingOut, mtx, currentPrompt, worker, workerVars, consVars, appVars,
                   replies, callbacks, apiVars>>

\* line 187
SetMaxTokens ==
    /\ cpc = "idle"
    /\ \E n \in 0..MaxTokens : max_gen_tokens' = n
    /\ UNCHANGED <<engine, model, ctx, sampler, stopWords, generating, requestStop,
                   pendingOut, mtx, currentPrompt, worker, workerVars, consVars, appVars,
                   replies, callbacks, apiVars>>

\* lines 192-194
AddStopWord ==
    /\ cpc = "idle"
    /\ Len(stopWords) < MaxStopWords
    /\ \E w \in StopWordChoices : stopWords' = Append(stopWords, w)
    /\ UNCHANGED <<engine, model, ctx, sampler, max_gen_tokens, generating, requestStop,
                   pendingOut, mtx, currentPrompt, worker, workerVars, consVars, appVars,
                   replies, callbacks, apiVars>>

\* lines 198-200
ClearStopWords ==
    /\ cpc = "idle"
    /\ stopWords' = <<>>
    /\ UNCHANGED <<engine, model, ctx, sampler, max_gen_tokens, generating, requestStop,
                   pendingOut, mtx, currentPrompt, worker, workerVars, consVars, appVars,
                   replies, callbacks, apiVars>>

StartGeneration ==
    /\ cpc = "idle"
    /\ \E p \in 0..MaxPrompt, n \in 0..MaxTokens : LibStartCall(p, n, "idle")
    /\ UNCHANGED <<engine, model, ctx, sampler, stopWords, max_gen_tokens, generating,
                   pendingOut, mtx, currentPrompt, worker, workerVars, polled, appVars,
                   replies, callbacks, apiVars>>

StartJoin ==
    /\ LibStartJoin
    /\ UNCHANGED <<apiVars, appVars>>

StopGeneration ==
    /\ cpc = "idle"
    /\ LibStopCall("idle")
    /\ UNCHANGED <<engine, model, ctx, sampler, stopWords, max_gen_tokens, generating,
                   pendingOut, currentPrompt, worker, workerVars, polled, appVars,
                   replies, callbacks, apiVars>>

StopJoin ==
    /\ LibStopJoin
    /\ UNCHANGED <<engine, model, ctx, sampler, stopWords, max_gen_tokens, generating,
                   requestStop, pendingOut, mtx, currentPrompt, workerVars, polled,
                   appVars, replies, callbacks, apiVars>>

\* example_basics ofApp::update: output += llama.getNewOutput()
GetNewOutput ==
    /\ cpc = "idle"
    /\ polled' = polled \o pendingOut
    /\ getNewOutput
    /\ UNCHANGED <<engine, model, ctx, sampler, stopWords, max_gen_tokens, generating,
                   requestStop, currentPrompt, worker, workerVars, cpc, call,
                   appVars, replies, callbacks, apiVars>>

Consumer ==
    \/ LoadModel \/ Unload \/ SetSampling \/ SetMaxTokens
    \/ AddStopWord \/ ClearStopWords
    \/ StartGeneration \/ StartJoin \/ StopGeneration \/ StopJoin
    \/ GetNewOutput

----------------------------------------------------------------------------
(* The handle after construction (ofxLlamaCpp.h:157-205), no model loaded *)

NothingLoaded ==
    /\ engine = NoEngineObjects
    /\ model = FALSE
    /\ ctx = FALSE
    /\ sampler = FALSE

InitLib ==
    /\ max_gen_tokens = DEFAULT_MAX_GEN_TOKENS
    /\ generating = FALSE
    /\ requestStop = FALSE
    /\ pendingOut = <<>>
    /\ mtx = "none"
    /\ currentPrompt = 0
    /\ worker = FALSE
    /\ alive = 0
    /\ wpc = "none"
    /\ ntokens = 0
    /\ n_past = 0
    /\ t = 0
    /\ generated = <<>>
    /\ script = <<>>
    /\ ended = {}
    /\ batches = <<>>
    /\ invoked = NoneInvoked
    /\ tokenCallback = FALSE
    /\ finishCallback = FALSE
    /\ returned = NothingReturned
    /\ sessionMax = 0
    /\ cpc = "idle"
    /\ call = NoCall
    /\ polled = <<>>

InitApp ==
    /\ currentState = "CHATTING"
    /\ wasGenerating = FALSE
    /\ chatHistory = <<>>
    /\ conversationSummary = <<>>
    /\ temp_summary_output = <<>>

Init ==
    /\ InitLib
    /\ NothingLoaded
    /\ stopWords = <<>>
    /\ InitApp
    /\ ready = FALSE
    /\ input = FALSE
    /\ selectedTemplate = "Plain"
    /\ replies = LibReplies

Next == Worker \/ Consumer

Spec == Init /\ [][Next]_vars

----------------------------------------------------------------------------
(* example_chat: ofApp *)

REPLY_MAX_TOKENS   == 1024
SUMMARY_MAX_TOKENS == 512

UserText   == <<"u">>
OldText    == <<"...">>
StopMarker == <<" [...] (Stopped)">>

\* ofApp::onTemplateChange: the stop words of a template; only some templates
\* have any (lines 169-183)
Templates == {"Plain", "Marked"}
TemplateStopWords(tpl) == IF tpl = "Marked" THEN <<PieceEND, PieceD>> ELSE <<>>

UserMsg(c)      == [content |-> c, isUser |-> TRUE]
AssistantMsg(c) == [content |-> c, isUser |-> FALSE]

\* The text and the role of a message that is no longer the last one are read
\* only to build prompts, which the engine answers as it likes: the model keeps
\* the message and forgets both.
OldMsg == [content |-> OldText, isUser |-> TRUE]
Settled(h) == [i \in DOMAIN h |-> OldMsg]

\* chatHistory.back().content = c
WithLastContent(h, c) == [h EXCEPT ![Len(h)].content = c]

\* ofApp::update lines 299-313: where a chunk goes
AppendChunk(chunk) ==
    IF chunk = <<>>
    THEN UNCHANGED <<temp_summary_output, chatHistory>>
    ELSE CASE currentState = "SUMMARIZING" ->
                /\ temp_summary_output' = temp_summary_output \o chunk
                /\ UNCHANGED chatHistory
           [] currentState = "GENERATING_REPLY" ->
                /\ chatHistory' =
                      IF chatHistory = <<>> \/ chatHistory[Len(chatHistory)].isUser
                      THEN Append(chatHistory, AssistantMsg(chunk))
                      ELSE WithLastContent(chatHistory,
                               chatHistory[Len(chatHistory)].content \o chunk)
                /\ UNCHANGED temp_summary_output
           [] OTHER -> UNCHANGED <<temp_summary_output, chatHistory>>

\* variant: one truncation, at the rightmost of the matches of all stop words
StripAtRightmostMatch(content, words) ==
    LET hits == { Rfind(content, words[i]) : i \in DOMAIN words } \ {-1}
    IN  IF hits = {}
        THEN content
        ELSE Erase(content, CHOOSE p \in hits : \A q \in hits : q <= p)

\* ofApp::update lines 343-348: one rfind and erase per stop word, in order
RECURSIVE StripStopWords(_, _)
StripStopWords(content, words) ==
    IF words = <<>>
    THEN content
    ELSE LET pos == Rfind(content, Head(words))
         IN  StripStopWords(IF pos # -1 THEN Erase(content, pos) ELSE content,
                            Tail(words))

\* ofApp::startSummarization lines 212-213: the positions (from 1) of the
\* messages about to be pruned, which the loop offers to the summarizer (lines
\* 214-221 put those of them that have text into the prompt)
AboutToBePruned(h) == 1..(Len(h) - CHAT_HISTORY_LIMIT)

\* variant: the pruning keeps one message less than the history limit
PruneHistoryOneMore(h) ==
    LET messages_to_prune_count == Len(h) - CHAT_HISTORY_LIMIT + 1
    IN  IF messages_to_prune_count > 0
        THEN SubSeq(h, messages_to_prune_count + 1, Len(h))
        ELSE h

\* ofApp::update lines 327-330
PruneHistory(h) ==
    LET messages_to_prune_count == Len(h) - CHAT_HISTORY_LIMIT
    IN  IF messages_to_prune_count > 0
        THEN SubSeq(h, messages_to_prune_count + 1, Len(h))
        ELSE h

\* variant: summarization is due as soon as the history limit is reached
SummaryDueAtLimit(h) == Len(h) >= CHAT_HISTORY_LIMIT

\* variant: the threshold is tested with > instead of >=
SummaryDueStrict(h) == Len(h) > CHAT_HISTORY_LIMIT + SUMMARY_INTERVAL

\* ofApp::keyPressed line 410
SummaryDue(h) == Len(h) >= CHAT_HISTORY_LIMIT + SUMMARY_INTERVAL

----------------------------------------------------------------------------
(* example_chat: the handlers, run on the consumer thread *)

\* ofApp::keyPressed, a printable key (lines 429-431)
TypeInput ==
    /\ cpc = "idle"
    /\ ready
    /\ input' = TRUE
    /\ UNCHANGED <<libVars, workerVars, consVars, replies, callbacks, apiVars, ready, currentState,
                   wasGenerating, chatHistory, conversationSummary,
                   temp_summary_output, selectedTemplate>>

\* variant: Enter is handled in every state
SubmitAnyState ==
    /\ cpc = "idle"
    /\ ready
    /\ Len(chatHistory) < MaxHistory
    /\ IF ~input
       THEN UNCHANGED <<libVars, workerVars, consVars, appVars, replies, callbacks, apiVars>>
       ELSE /\ chatHistory' = Append(Settled(chatHistory), UserMsg(UserText))
            /\ input' = FALSE
            /\ IF SummaryDue(chatHistory')
               THEN /\ currentState' = "SUMMARIZING"
                    /\ temp_summary_output' = <<>>
                    /\ \E p \in 1..MaxPrompt :
                          LibStartCall(p, SUMMARY_MAX_TOKENS, "idle")
               ELSE /\ currentState' = "GENERATING_REPLY"
                    /\ UNCHANGED temp_summary_output
                    /\ \E p \in 1..MaxPrompt :
                          LibStartCall(p, REPLY_MAX_TOKENS, "idle")
            /\ wasGenerating' = IF ctx THEN wasGenerating ELSE TRUE
            /\ UNCHANGED <<engine, model, ctx, sampler, stopWords, max_gen_tokens,
                           generating, pendingOut, mtx, currentPrompt, worker,
                           workerVars, polled, replies, callbacks, apiVars, ready,
                           conversationSummary, selectedTemplate>>

\* ofApp::keyPressed, OF_KEY_RETURN (lines 399-418), up to the join inside
\* llama.startGeneration; startSummarization line 237 clears temp_summary_output
Submit ==
    /\ cpc = "idle"
    /\ ready
    /\ Len(chatHistory) < MaxHistory
    /\ IF ~input \/ currentState # "CHATTING"
       THEN UNCHANGED <<libVars, workerVars, consVars, appVars, replies, callbacks, apiVars>>
       ELSE /\ chatHistory' = Append(Settled(chatHistory), UserMsg(UserText))
            /\ input' = FALSE
            /\ IF SummaryDue(chatHistory')
               THEN /\ currentState' = "SUMMARIZING"
                    /\ temp_summary_output' = <<>>
                    /\ \E p \in 1..MaxPrompt :
                          LibStartCall(p, SUMMARY_MAX_TOKENS, "idle")
               ELSE /\ currentState' = "GENERATING_REPLY"
                    /\ UNCHANGED temp_summary_output
                    /\ \E p \in 1..MaxPrompt :
                          LibStartCall(p, REPLY_MAX_TOKENS, "idle")
            /\ wasGenerating' = IF ctx THEN wasGenerating ELSE TRUE
            /\ UNCHANGED <<engine, model, ctx, sampler, stopWords, max_gen_tokens,
                           generating, pendingOut, mtx, currentPrompt, worker,
                           workerVars, polled, replies, callbacks, apiVars, ready,
                           conversationSummary, selectedTemplate>>

\* the rest of llama.startGeneration, then `wasGenerating = true`
\* (startSummarization line 240, startReplyGeneration line 287)
AppStartJoin ==
    /\ LibStartJoin
    /\ wasGenerating' = TRUE
    /\ UNCHANGED <<apiVars, ready, currentState, chatHistory, conversationSummary,
                   temp_summary_output, input, selectedTemplate>>

\* ofApp::update lines 293-314
UpdatePoll ==
    /\ cpc = "idle"
    /\ ready
    /\ AppendChunk(pendingOut)
    /\ getNewOutput
    /\ cpc' = "upd_check"
    /\ UNCHANGED <<engine, model, ctx, sampler, stopWords, max_gen_tokens, generating,
                   requestStop, currentPrompt, worker, workerVars, call, polled, replies, callbacks, apiVars,
                   ready, currentState, wasGenerating, conversationSummary, input,
                   selectedTemplate>>

\* ofApp::update lines 317-356
UpdateCheck ==
    /\ cpc = "upd_check"
    /\ IF wasGenerating /\ ~isGenerating
       THEN CASE currentState = "SUMMARIZING" ->
                   /\ conversationSummary' = temp_summary_output
                   /\ chatHistory' = PruneHistory(chatHistory)
                   /\ currentState' = "GENERATING_REPLY"
                   /\ \E p \in 1..MaxPrompt :
                         LibStartCall(p, REPLY_MAX_TOKENS, "upd_tail")
                   /\ wasGenerating' = IF ctx THEN FALSE ELSE TRUE
              [] currentState = "GENERATING_REPLY" ->
                   /\ chatHistory' =
                         IF chatHistory # <<>> /\ ~chatHistory[Len(chatHistory)].isUser
                         THEN WithLastContent(chatHistory,
                                  StripStopWords(chatHistory[Len(chatHistory)].content,
                                                 stopWords))
                         ELSE chatHistory
                   /\ currentState' = "CHATTING"
                   /\ wasGenerating' = FALSE
                   /\ cpc' = "upd_tail"
                   /\ UNCHANGED <<conversationSummary, requestStop, call>>
              [] OTHER ->
                   /\ wasGenerating' = FALSE
                   /\ cpc' = "upd_tail"
                   /\ UNCHANGED <<conversationSummary, chatHistory, currentState,
                                  requestStop, call>>
       ELSE /\ cpc' = "upd_tail"
            /\ UNCHANGED <<conversationSummary, chatHistory, currentState,
                           wasGenerating, requestStop, call>>
    /\ UNCHANGED <<engine, model, ctx, sampler, stopWords, max_gen_tokens, generating,
                   pendingOut, mtx, currentPrompt, worker, workerVars, polled, replies, callbacks, apiVars,
                   ready, temp_summary_output, input, selectedTemplate>>

\* ofApp::update line 357
UpdateTail ==
    /\ cpc = "upd_tail"
    /\ wasGenerating' = isGenerating
    /\ cpc' = "idle"
    /\ UNCHANGED <<libVars, workerVars, call, polled, replies, callbacks, apiVars, ready, currentState,
                   chatHistory, conversationSummary, temp_summary_output, input,
                   selectedTemplate>>

\* ofApp::stopGeneration line 436, up to the join
AppStop ==
    /\ cpc = "idle"
    /\ LibStopCall("idle")
    /\ UNCHANGED <<engine, model, ctx, sampler, stopWords, max_gen_tokens, generating,
                   pendingOut, currentPrompt, worker, workerVars, polled, appVars,
                   replies, callbacks, apiVars>>

\* variant: a stopped summarization stores what it has produced so far
AppStopJoinStoresPartial ==
    /\ LibStopJoin
    /\ wasGenerating' = FALSE
    /\ conversationSummary' = IF currentState = "SUMMARIZING"
                              THEN temp_summary_output
                              ELSE conversationSummary
    /\ IF currentState # "CHATTING"
       THEN /\ currentState' = "CHATTING"
            /\ chatHistory' =
                  IF chatHistory # <<>> /\ ~chatHistory[Len(chatHistory)].isUser
                  THEN WithLastContent(chatHistory,
                           chatHistory[Len(chatHistory)].content \o StopMarker)
                  ELSE chatHistory
       ELSE UNCHANGED <<currentState, chatHistory>>
    /\ UNCHANGED <<engine, model, ctx, sampler, stopWords, max_gen_tokens, generating,
                   requestStop, pendingOut, mtx, currentPrompt, workerVars, polled,
                   replies, callbacks, apiVars, ready, temp_summary_output, input,
                   selectedTemplate>>

\* variant: the marker is appended to whatever message is last
AppStopJoinMarksAny ==
    /\ LibStopJoin
    /\ wasGenerating' = FALSE
    /\ IF currentState # "CHATTING"
       THEN /\ currentState' = "CHATTING"
            /\ chatHistory' =
                  IF chatHistory # <<>>
                  THEN WithLastContent(chatHistory,
                           chatHistory[Len(chatHistory)].content \o StopMarker)
                  ELSE chatHistory
       ELSE UNCHANGED <<currentState, chatHistory>>
    /\ UNCHANGED <<engine, model, ctx, sampler, stopWords, max_gen_tokens, generating,
                   requestStop, pendingOut, mtx, currentPrompt, workerVars, polled,
                   replies, callbacks, apiVars, ready, conversationSummary, temp_summary_output, input,
                   selectedTemplate>>

\* ofApp::stopGeneration: the join, then lines 437-448
AppStopJoin ==
    /\ LibStopJoin
    /\ wasGenerating' = FALSE
    /\ IF currentState # "CHATTING"
       THEN /\ currentState' = "CHATTING"
            /\ chatHistory' =
                  IF chatHistory # <<>> /\ ~chatHistory[Len(chatHistory)].isUser
                  THEN WithLastContent(chatHistory,
                           chatHistory[Len(chatHistory)].content \o StopMarker)
                  ELSE chatHistory
       ELSE UNCHANGED <<currentState, chatHistory>>
    /\ UNCHANGED <<engine, model, ctx, sampler, stopWords, max_gen_tokens, generating,
                   requestStop, pendingOut, mtx, currentPrompt, workerVars, polled,
                   replies, callbacks, apiVars, ready, conversationSummary, temp_summary_output, input,
                   selectedTemplate>>

\* ofApp::onModelChange (lines 118-160), up to the clearStopWords of the
\* onTemplateChange it ends with
OnModelChange ==
    /\ cpc = "idle"
    /\ chatHistory' = <<>>
    /\ conversationSummary' = <<>>
    /\ currentState' = "CHATTING"
    /\ \E outcome \in {"ok", "bad_model", "bad_ctx"} :
          /\ loadModel(outcome)
          /\ ready' = (outcome = "ok")
          /\ IF outcome = "ok"
             THEN stopWords' = <<>> /\ cpc' = "tmpl_add"
             ELSE UNCHANGED <<stopWords, cpc>>
    /\ UNCHANGED <<max_gen_tokens, generating, requestStop, pendingOut, mtx,
                   currentPrompt, worker, workerVars, call, polled, replies, callbacks, apiVars,
                   wasGenerating, temp_summary_output, input, selectedTemplate>>

\* ofApp::onTemplateChange line 164, for the template picked in the dropdown
OnTemplateChange ==
    /\ cpc = "idle"
    /\ selectedTemplate' \in Templates
    /\ stopWords' = <<>>
    /\ cpc' = "tmpl_add"
    /\ UNCHANGED <<engine, model, ctx, sampler, max_gen_tokens, generating, requestStop,
                   pendingOut, mtx, currentPrompt, worker, workerVars, call, polled,
                   replies, callbacks, apiVars, ready, currentState, wasGenerating, chatHistory,
                   conversationSummary, temp_summary_output, input>>

\* ofApp::onTemplateChange lines 169-183
TemplateAddStopWords ==
    /\ cpc = "tmpl_add"
    /\ stopWords' = TemplateStopWords(selectedTemplate)
    /\ cpc' = "idle"
    /\ UNCHANGED <<engine, model, ctx, sampler, max_gen_tokens, generating, requestStop,
                   pendingOut, mtx, currentPrompt, worker, workerVars, call, polled,
                   replies, callbacks, apiVars, appVars>>

App ==
    \/ TypeInput \/ Submit \/ AppStartJoin
    \/ UpdatePoll \/ UpdateCheck \/ UpdateTail
    \/ AppStop \/ AppStopJoin
    \/ OnModelChange \/ OnTemplateChange \/ TemplateAddStopWords

\* Replies of the engine in the chat: nothing, a plain reply, a reply that runs
\* into a stop word
ChatReplies == { <<>>, <<PieceA>>, <<PieceA, PieceEN, PieceD>> }

\* ofApp after setup(): the first model of the list loaded, the first template
\* selected (lines 99-114)
InitChat ==
    /\ InitLib
    /\ NothingLoaded
    /\ InitApp
    /\ ready = FALSE
    /\ input = FALSE
    /\ selectedTemplate \in Templates
    /\ stopWords = TemplateStopWords(selectedTemplate)
    /\ replies = ChatReplies

NextChat == Worker \/ App

SpecChat == InitChat /\ [][NextChat]_vars

----------------------------------------------------------------------------
(* The end-to-end reply: stop word "END", a reply "1, 2, 3, END" *)

Text123    == <<"1", ",", " ", "2", ",", " ", "3", ",", " ">>
Text123END == Text123 \o PieceEND

EndReplies ==
    { << <<"1", ",", " ">>, <<"2", ",", " ">>, <<"3", ",", " ">>, PieceEND >>,
      << <<"1", ",", " ">>, <<"2", ",", " ">>, <<"3", ",", " ">>, PieceEN, PieceD >> }

\* the model loaded, the stop word configured, the request typed
InitEnd ==
    /\ InitLib
    /\ engine = [model |-> 1, ctx |-> 1, sampler |-> 1, fault |-> FALSE]
    /\ model = TRUE /\ ctx = TRUE /\ sampler = TRUE
    /\ stopWords = <<PieceEND>>
    /\ InitApp
    /\ ready = TRUE
    /\ input = TRUE
    /\ selectedTemplate = "Plain"
    /\ replies = EndReplies

NextEnd ==
    \/ Worker
    \/ Submit \/ AppStartJoin \/ UpdatePoll \/ UpdateCheck \/ UpdateTail

SpecEnd == InitEnd /\ [][NextEnd]_vars

\* The same scenario with the scheduling the program has: a thread that can
\* take a step of generationLoop eventually takes it, startGeneration returns
\* once its join has, and the frame loop keeps calling update(), which runs to
\* its end
FairEnd ==
    /\ WF_vars(Worker)
    /\ WF_vars(AppStartJoin)
    /\ WF_vars(UpdatePoll)
    /\ WF_vars(UpdateCheck)
    /\ WF_vars(UpdateTail)

SpecEndFair == SpecEnd /\ FairEnd

----------------------------------------------------------------------------
(* Sessions of a loaded handle under the scheduling the program has *)

\* a handle with a model loaded and a stop word configured
InitLive ==
    /\ InitLib
    /\ engine = [model |-> 1, ctx |-> 1, sampler |-> 1, fault |-> FALSE]
    /\ model = TRUE /\ ctx = TRUE /\ sampler = TRUE
    /\ stopWords = <<PieceEND>>
    /\ InitApp
    /\ ready = FALSE
    /\ input = FALSE
    /\ selectedTemplate = "Plain"
    /\ replies = LibReplies

\* the calls of a consumer that starts, polls and stops sessions
Session ==
    \/ SetMaxTokens
    \/ StartGeneration \/ StartJoin \/ StopGeneration \/ StopJoin
    \/ GetNewOutput

NextLive == Worker \/ Session

\* Every engine call returns and the thread in generationLoop is scheduled: a
\* step it can take is eventually taken.  A join returns once the thread joined
\* has exited.
FairLive ==
    /\ WF_vars(Worker)
    /\ WF_vars(StartJoin)
    /\ WF_vars(StopJoin)

SpecLive == InitLive /\ [][NextLive]_vars /\ FairLive

----------------------------------------------------------------------------
(* A caller that registers callbacks *)

\* lines 312-314, with a callable target
SetTokenCallback ==
    /\ cpc = "idle"
    /\ tokenCallback' = TRUE
    /\ UNCHANGED <<libVars, finishCallback, workerVars, consVars, apiVars, appVars,
                   replies>>

\* lines 318-320, with a callable target
SetFinishCallback ==
    /\ cpc = "idle"
    /\ finishCallback' = TRUE
    /\ UNCHANGED <<libVars, tokenCallback, workerVars, consVars, apiVars, appVars,
                   replies>>

Registrant ==
    \/ LoadModel \/ AddStopWord
    \/ SetTokenCallback \/ SetFinishCallback
    \/ StartGeneration \/ StartJoin \/ StopGeneration \/ StopJoin

NextCallbacks == Worker \/ Registrant

SpecCallbacks == Init /\ [][NextCallbacks]_vars

----------------------------------------------------------------------------
(* A caller that looks at what its calls hand back *)

\* startGeneration as its caller sees it: void, whether the call returned at
\* line 370 or went on to spawn a thread
CallStartGeneration ==
    /\ cpc = "idle"
    /\ \E p \in 0..MaxPrompt, n \in 0..MaxTokens : LibStartCall(p, n, "returned")
    /\ returned' = IF ctx THEN returned
                   ELSE Returned("startGeneration", "refused", "void")
    /\ UNCHANGED <<engine, model, ctx, sampler, stopWords, max_gen_tokens, generating,
                   pendingOut, mtx, currentPrompt, worker, workerVars, polled, sessionMax,
                   appVars, replies, callbacks>>

CallStartJoin ==
    /\ LibStartJoin
    /\ returned' = Returned("startGeneration", "started", "void")
    /\ sessionMax' = call.maxTokens
    /\ UNCHANGED appVars

\* What tokenize and detokenize can do when `model` is null: both pass it to
\* llama_model_get_vocab (lines 247, 272) and use the pointer that comes back,
\* which is undefined: the process dies, or the call returns something
NullModelOutcomes == {"abort", "empty", "garbage"}

\* a call into the engine with a null model
EngineCalledWithNull == engine' = [engine EXCEPT !.fault = TRUE]

\* the whole process is gone: no thread takes another step
Aborts ==
    /\ cpc' = "aborted"
    /\ wpc' = "aborted"

\* the call `c` of the token helpers, which turns text into tokens or back
TokenHelper(c) ==
    /\ cpc = "idle"
    /\ IF model
       THEN /\ returned' = Returned(c, "converted", "result")
            /\ cpc' = "returned"
            /\ UNCHANGED <<engine, wpc>>
       ELSE /\ EngineCalledWithNull
            /\ \E v \in NullModelOutcomes :
                  /\ returned' = Returned(c, "null_model", v)
                  /\ IF v = "abort" THEN Aborts ELSE cpc' = "returned" /\ UNCHANGED wpc
    /\ UNCHANGED <<model, ctx, sampler, stopWords, max_gen_tokens, generating,
                   requestStop, pendingOut, mtx, currentPrompt, worker, ended, invoked, alive,
                   ntokens, batches, n_past, t, generated, script, call, polled,
                   sessionMax, appVars, replies, callbacks>>

\* ofxLlamaCpp::tokenize (lines 246-263)
Tokenize == TokenHelper("tokenize")

\* ofxLlamaCpp::detokenize (lines 267-288)
Detokenize == TokenHelper("detokenize")

\* the caller has looked at what came back and goes on
Looked ==
    /\ cpc = "returned"
    /\ cpc' = "idle"
    /\ returned' = NothingReturned
    /\ UNCHANGED <<libVars, workerVars, call, polled, sessionMax, appVars, replies,
                   callbacks>>

Caller ==
    \/ LoadModel \/ SetMaxTokens
    \/ CallStartGeneration \/ CallStartJoin
    \/ Tokenize \/ Detokenize \/ Looked

NextApi == Worker \/ Caller

SpecApi == Init /\ [][NextApi]_vars

----------------------------------------------------------------------------
(* Properties *)

\* A configured, non-empty stop word is a suffix of the text generated so far
StopWordCompleted ==
    \E i \in DOMAIN stopWords :
        LET w == stopWords[i]
        IN  /\ Len(w) > 0
            /\ Len(generated) >= Len(w)
            /\ \A k \in 1..Len(w) : generated[Len(generated) - Len(w) + k] = w[k]

\* what getNewOutput() has delivered in this session, plus what it still holds
Emitted == polled \o pendingOut

LastContent == chatHistory[Len(chatHistory)].content

\* C1: at most one generationLoop thread exists at any time, and it is the one
\* the handle's thread object holds; a start never leaves a second one running.
C1_AtMostOneWorker ==
    /\ alive \in {0, 1}
    /\ alive = 1 => worker

\* C1 witness: startGeneration was called in the middle of a session and waits
\* in the join for the worker, which is still decoding.
C1_Witness == cpc = "start_join" /\ alive = 1 /\ wpc = "decode"

\* C2: once stopGeneration has returned and until the next start spawns a
\* thread (the thread object is not joinable), no thread is in generationLoop,
\* isGenerating() is false, the flag does not change and nothing is appended
\* to pendingOut.
C2_StopReturnsAfterExit ==
    /\ [](~worker => (alive = 0 /\ ~isGenerating))
    /\ [][(~worker /\ ~worker') =>
            (generating' = generating /\ pendingOut' \in {pendingOut, <<>>})]_vars

\* C2 witness: a stopped session that had produced text.
C2_Witness == ~worker /\ wpc = "done" /\ generated # <<>> /\ cpc = "idle"

\* C3: in every state the text delivered by the getNewOutput() calls of the
\* session, followed by what is still pending, is the text the worker has
\* produced; after the worker's exit and a final poll the polls add up to it.
C3_PollsAddUp ==
    /\ polled \o pendingOut = generated
    /\ (wpc = "done" /\ pendingOut = <<>>) => polled = generated

\* C3 witness: a finished session of four characters, polled to the end.
C3_Witness ==
    /\ wpc = "done"
    /\ pendingOut = <<>>
    /\ polled = <<"a", "E", "N", "D">>

\* C4: when the stop-word test runs on a text that ends with a configured
\* non-empty stop word, however the word was split over fragments, the worker
\* leaves the loop at once: no decode, no further sample, and from there it only
\* ends.
C4_StopWordHalts ==
    [][ /\ (wpc = "check" /\ wpc' # "check" /\ StopWordCompleted) =>
             (/\ wpc' = "finish"
              /\ ~generating'
              /\ t' = t /\ n_past' = n_past /\ script' = script
              /\ generated' = generated)
        /\ wpc = "finish" => wpc' \in {"finish", "done"} ]_vars

\* C4 witness: "END" arrived as "EN" then "D" after an "a"; the worker left the
\* loop with a piece unsampled, tokens to spare and no stop request.
C4_Witness ==
    /\ wpc = "finish"
    /\ generated = <<"a", "E", "N", "D">>
    /\ stopWords = <<PieceEND>>
    /\ script = <<PieceA>>
    /\ ~requestStop
    /\ t < max_gen_tokens

\* C5 as stated: when the worker halts on a stop word, the emitted text ends
\* immediately before the stop word.
C5_EmittedEndsBeforeStopWord ==
    [][ (wpc = "check" /\ wpc' = "finish") =>
          \E i \in DOMAIN stopWords :
              /\ stopWords[i] # <<>>
              /\ EndsWith(generated, stopWords[i])
              /\ Emitted' \o stopWords[i] = generated ]_vars

\* C5 amended: when the worker halts on a stop word, the emitted text ends with
\* that stop word: the stop word is the last text emitted.
C5_EmittedEndsWithStopWord ==
    [][ (wpc = "check" /\ wpc' = "finish") =>
          \E i \in DOMAIN stopWords :
              /\ stopWords[i] # <<>>
              /\ EndsWith(Emitted', stopWords[i]) ]_vars

\* C5 witness: the session halted on its first piece, "END", and the polls
\* delivered it.
C5_Witness ==
    /\ wpc = "done"
    /\ stopWords = <<PieceEND>>
    /\ t = 0
    /\ pendingOut = <<>>
    /\ polled = PieceEND

\* C6 as stated: once the worker has emitted "1, 2, 3, END" and exited, every
\* fragment has been polled and update() has returned with nothing left to
\* react to, the state is back to CHATTING, isGenerating() is false and the
\* reply is exactly "1, 2, 3, ".
C6_EndToEndReply ==
    (/\ generated = Text123END
     /\ wpc = "done"
     /\ pendingOut = <<>>
     /\ cpc = "idle"
     /\ ~wasGenerating) =>
        /\ currentState = "CHATTING"
        /\ ~isGenerating
        /\ Len(chatHistory) = 2
        /\ LastContent = Text123

\* C7: a submission that brings the history to HISTORY_LIMIT + SUMMARY_INTERVAL
\* messages (or more) starts a summarization session; no reply session is
\* started while the state is SUMMARIZING; and the step from SUMMARIZING to
\* GENERATING_REPLY is taken with the summarization session over and leaves at
\* most HISTORY_LIMIT messages.
C7_SummarizeBeforeReply ==
    [][ /\ (/\ currentState = "CHATTING"
            /\ currentState' # "CHATTING"
            /\ Len(chatHistory') >= CHAT_HISTORY_LIMIT + SUMMARY_INTERVAL) =>
               (/\ currentState' = "SUMMARIZING"
                /\ cpc' = "start_join"
                /\ call'.maxTokens = SUMMARY_MAX_TOKENS)
        /\ (alive' > alive /\ currentState = "SUMMARIZING") =>
               max_gen_tokens' = SUMMARY_MAX_TOKENS
        /\ (currentState = "SUMMARIZING" /\ currentState' = "GENERATING_REPLY") =>
               (/\ ~isGenerating
                /\ Len(chatHistory') <= CHAT_HISTORY_LIMIT
                /\ chatHistory'[Len(chatHistory')] = UserMsg(UserText)) ]_vars

\* C7 witness: the submission made the history 12 long and its summarization
\* session is running.
C7_Witness ==
    /\ currentState = "SUMMARIZING"
    /\ Len(chatHistory) = 12
    /\ alive = 1
    /\ max_gen_tokens = SUMMARY_MAX_TOKENS

\* C8 as stated: history.length is below HISTORY_LIMIT + SUMMARY_INTERVAL in
\* every reachable state.
C8_HistoryBelowThreshold ==
    Len(chatHistory) < CHAT_HISTORY_LIMIT + SUMMARY_INTERVAL

\* C9 as stated, read between two handlers: a generating state has the thread
\* of its session in the handle, and CHATTING has no worker running and
\* isGenerating() false.
C9_StateMatchesSession ==
    cpc = "idle" =>
        /\ currentState \in {"GENERATING_REPLY", "SUMMARIZING"} => worker
        /\ currentState = "CHATTING" => (alive = 0 /\ ~isGenerating)

\* C10 as stated: the consumer changes the model, the context, the sampler, the
\* stop words or max_gen_tokens only while no worker is in generationLoop.
C10_EngineChangedOnlyWhenIdle ==
    [][ (\/ model' # model
         \/ ctx' # ctx
         \/ sampler' # sampler
         \/ stopWords' # stopWords
         \/ max_gen_tokens' # max_gen_tokens) => alive = 0 ]_vars

\* C11 as stated: every step that changes pendingOut or the generating flag is
\* taken while holding mtx.
C11_WritesUnderMtx ==
    [][ (pendingOut' # pendingOut \/ generating' # generating) => MtxHeld ]_vars

\* C12 as stated: a decode call made after requestStop was set is the worker's
\* last one: it is not followed by another prompt batch or token decode.
C12_OneDecodeAfterStop ==
    [][ (requestStop /\ DecodeCall) => wpc' \notin {"prompt", "sample", "check", "decode"} ]_vars

\* The engine holds exactly the objects the handle points to, one of each at
\* most, and no free call was a fault
EngineMatchesHandle ==
    /\ ~engine.fault
    /\ engine.model = (IF model THEN 1 ELSE 0)
    /\ engine.ctx = (IF ctx THEN 1 ELSE 0)
    /\ engine.sampler = (IF sampler THEN 1 ELSE 0)

\* C13: whatever the handle holds, also nothing, unload() frees each object the
\* handle points to once, the sampler before the context before the model, and
\* nothing else: no free call is a fault, and a step that drops any of the
\* three pointers leaves all three null with nothing allocated.
C13_UnloadIdempotent ==
    /\ []EngineMatchesHandle
    /\ [][ ((model /\ ~model') \/ (ctx /\ ~ctx') \/ (sampler /\ ~sampler')) =>
             (~model' /\ ~ctx' /\ ~sampler' /\ engine' = NoEngineObjects) ]_vars

\* C13 witness: a model was loaded and used for a session, and the handle is
\* unloaded again.
C13_Witness ==
    /\ wpc = "done"
    /\ generated # <<>>
    /\ ~model /\ ~ctx /\ ~sampler
    /\ engine = NoEngineObjects

\* C14: `ready` holds what the last loadModel returned.  After true the handle
\* holds one model, one context and one sampler, the previous ones released;
\* after false it holds nothing and nothing is left allocated.
C14_LoadAllOrNothing ==
    IF ready
    THEN /\ model /\ ctx /\ sampler
         /\ engine = [model |-> 1, ctx |-> 1, sampler |-> 1, fault |-> FALSE]
    ELSE /\ ~model /\ ~ctx /\ ~sampler
         /\ engine = NoEngineObjects

\* C14 witness: a load failed on a handle whose model had been used for a
\* session.
C14_Witness == ~ready /\ ~model /\ wpc = "done" /\ generated # <<>>

\* C15: a failed decode ends the thread in that very step, with generating
\* false and the pending and generated text untouched; an ended thread takes no
\* step; what was emitted stays what the polls and pendingOut hold.
C15_DecodeFailureFatal ==
    [][ /\ (DecodeCall /\ wpc' = "done") =>
             (/\ ~generating'
              /\ alive' = alive - 1
              /\ pendingOut' = pendingOut
              /\ generated' = generated
              /\ t' = t
              /\ Emitted' = generated')
        /\ wpc = "done" => wpc' \in {"done", "begin"} ]_vars

\* C15 witness: the only session so far died of a failed decode after emitting
\* "a", which is still there to poll.
C15_Witness ==
    /\ wpc = "done"
    /\ ended = {EndSeen(FALSE, TRUE)}
    /\ ~generating
    /\ pendingOut = <<"a">>

\* C16 as stated: a session that ended on a failed decode and a session that
\* ended cleanly never look the same to the caller.
C16_FailureDistinguishable ==
    \A a, b \in ended : a.abnormal # b.abnormal => a.isGenerating # b.isGenerating

LastIsAssistant == chatHistory # <<>> /\ ~chatHistory[Len(chatHistory)].isUser

\* C17: when ofApp::stopGeneration returns from a stop requested in
\* GENERATING_REPLY or SUMMARIZING, the worker is joined, the state is CHATTING,
\* the marker is appended to the last message exactly if it is an assistant
\* message and the summary is untouched; and in CHATTING no update() step
\* changes the history or the summary.
C17_StopSkipsPostProcessing ==
    [][ /\ (/\ cpc = "stop_join" /\ cpc' = "idle"
            /\ currentState \in {"GENERATING_REPLY", "SUMMARIZING"}) =>
               (/\ alive' = 0 /\ ~worker' /\ ~isGenerating'
                /\ currentState' = "CHATTING"
                /\ ~wasGenerating'
                /\ conversationSummary' = conversationSummary
                /\ chatHistory' =
                      IF LastIsAssistant
                      THEN [chatHistory EXCEPT ![Len(chatHistory)].content = @ \o StopMarker]
                      ELSE chatHistory)
        /\ (/\ currentState = "CHATTING"
            /\ cpc' \in {"upd_check", "upd_tail"} \/ cpc \in {"upd_check", "upd_tail"}) =>
               (/\ chatHistory' = chatHistory
                /\ conversationSummary' = conversationSummary
                /\ currentState' = "CHATTING") ]_vars

\* C17 witness: a reply of "a" so far was stopped and carries the marker.
C17_Witness ==
    /\ cpc = "idle"
    /\ currentState = "CHATTING"
    /\ ~worker
    /\ LastIsAssistant
    /\ LastContent = <<"a">> \o StopMarker

\* C18: the Enter key handled in CHATTING with input typed appends one user
\* message and calls startGeneration once, for a summary if the history has
\* reached HISTORY_LIMIT + SUMMARY_INTERVAL and for a reply otherwise; the call
\* spawns one worker.
C18_SubmitStartsOneSession ==
    [][ /\ (cpc = "idle" /\ ready /\ currentState = "CHATTING" /\ input /\ ~input') =>
               (/\ Len(chatHistory') = Len(chatHistory) + 1
                /\ chatHistory'[Len(chatHistory')] = [content |-> UserText, isUser |-> TRUE]
                /\ cpc' = "start_join"
                /\ IF Len(chatHistory') >= CHAT_HISTORY_LIMIT + SUMMARY_INTERVAL
                   THEN currentState' = "SUMMARIZING" /\ call'.maxTokens = SUMMARY_MAX_TOKENS
                   ELSE currentState' = "GENERATING_REPLY" /\ call'.maxTokens = REPLY_MAX_TOKENS)
        /\ (cpc = "start_join" /\ cpc' # "start_join") =>
               (/\ alive = 0 /\ alive' = 1
                /\ isGenerating'
                /\ max_gen_tokens' = call.maxTokens) ]_vars

\* C18 witness: the first message of a conversation was submitted and its reply
\* session runs.
C18_Witness ==
    /\ currentState = "GENERATING_REPLY"
    /\ chatHistory = <<[content |-> UserText, isUser |-> TRUE]>>
    /\ alive = 1
    /\ max_gen_tokens = REPLY_MAX_TOKENS

\* C19 as stated: the step from SUMMARIZING to GENERATING_REPLY stores the text
\* the summarization session produced as the summary, removes the oldest
\* history.length - HISTORY_LIMIT messages, keeps the pending user message last
\* and calls startGeneration for the reply.
C19_SummaryFolded ==
    [][ (currentState = "SUMMARIZING" /\ currentState' = "GENERATING_REPLY") =>
          (/\ conversationSummary' = generated
           /\ Len(chatHistory') =
                 (IF Len(chatHistory) > CHAT_HISTORY_LIMIT
                  THEN CHAT_HISTORY_LIMIT ELSE Len(chatHistory))
           /\ \A i \in 1..Len(chatHistory') :
                 chatHistory'[i] = chatHistory[Len(chatHistory) - Len(chatHistory') + i]
           /\ chatHistory'[Len(chatHistory')].isUser
           /\ cpc' = "start_join"
           /\ call'.maxTokens = REPLY_MAX_TOKENS) ]_vars

\* the message c after one cut per stop word of ws, taken in order: cut k is made
\* at the last match of ws[k] in what cuts 1..k-1 have left
CutInOrder(c, ws) ==
    LET after[k \in 0..Len(ws)] ==
            IF k = 0
            THEN c
            ELSE LET hits == { p \in 0..(Len(after[k-1]) - Len(ws[k])) :
                                 \A j \in 1..Len(ws[k]) : after[k-1][p + j] = ws[k][j] }
                 IN  IF hits = {}
                     THEN after[k-1]
                     ELSE SubSeq(after[k-1], 1, CHOOSE p \in hits : \A q \in hits : q <= p)
    IN  after[Len(ws)]

\* the message c cut once, at the rightmost position where any stop word of ws
\* is found by a search from the right
CutAtRightmost(c, ws) ==
    LET hits == { p \in 0..Len(c) :
                    \E k \in DOMAIN ws :
                       /\ p + Len(ws[k]) <= Len(c)
                       /\ \A j \in 1..Len(ws[k]) : c[p + j] = ws[k][j]
                       /\ \A q \in (p+1)..(Len(c) - Len(ws[k])) :
                             \E j \in 1..Len(ws[k]) : c[q + j] # ws[k][j] }
    IN  IF hits = {} THEN c ELSE SubSeq(c, 1, CHOOSE p \in hits : \A q \in hits : q <= p)

ReplyFinishes ==
    /\ cpc = "upd_check"
    /\ currentState = "GENERATING_REPLY"
    /\ currentState' = "CHATTING"
    /\ LastIsAssistant

\* C20 as stated: when the reply finishes the last assistant message is cut
\* once, at the rightmost match found across all configured stop words.
C20_CutAtRightmostMatch ==
    [][ ReplyFinishes =>
          chatHistory' = [chatHistory EXCEPT
                             ![Len(chatHistory)].content = CutAtRightmost(@, stopWords)] ]_vars

\* C20 amended: when the reply finishes the last assistant message is cut once
\* per configured stop word, in configuration order, each at the last match of
\* that stop word in what is left; what remains is a prefix of the message and
\* no other message changes.
C20_CutPerStopWordInOrder ==
    [][ ReplyFinishes =>
          /\ chatHistory' = [chatHistory EXCEPT
                                ![Len(chatHistory)].content = CutInOrder(@, stopWords)]
          /\ LET c == chatHistory[Len(chatHistory)].content
                 d == chatHistory'[Len(chatHistory')].content
             IN  Len(d) <= Len(c) /\ d = SubSeq(c, 1, Len(d)) ]_vars

\* C20 witness: the reply "aEND" finished with stop words "END" and "D", in that
\* order, and the message is "a".
C20_Witness ==
    /\ cpc = "upd_tail"
    /\ currentState = "CHATTING"
    /\ wpc = "done"
    /\ generated = <<"a", "E", "N", "D">>
    /\ pendingOut = <<>>
    /\ stopWords = <<PieceEND, PieceD>>
    /\ LastIsAssistant
    /\ LastContent = <<"a">>

\* C21 as stated: with a token callback registered, every step in which the
\* worker emits a fragment calls the callback once with it.
C21_TokenCallbackPerFragment ==
    [][ (tokenCallback /\ wpc = "sample" /\ wpc' = "check") =>
          invoked'.tokenCallback = invoked.tokenCallback + 1 ]_vars

\* C22 as stated: with a finish callback registered, every step in which the
\* thread of a session leaves generationLoop, whatever made it leave, has the
\* callback called once in that session.
C22_FinishCallbackOnEveryEnd ==
    [][ (finishCallback /\ wpc # "done" /\ wpc' = "done") =>
          invoked'.finishCallback = 1 ]_vars

\* C23 as stated: a startGeneration that finds no context changes nothing (no
\* thread, the flag, pendingOut and the stop flag as they were) and hands its
\* caller something that tells it so: not the plain void a call that starts a
\* session hands back.
C23_RefusedStartReported ==
    [][ (/\ cpc = "idle" /\ cpc' = "returned"
         /\ returned'.call = "startGeneration"
         /\ returned'.did = "refused") =>
            (/\ alive' = alive /\ worker' = worker
             /\ generating' = generating
             /\ pendingOut' = pendingOut
             /\ requestStop' = requestStop
             /\ returned'.value # "void") ]_vars

\* C24 as stated: tokenize and detokenize called with no model loaded hand back
\* an empty result and make no call into the engine with the null model.
C24_TokenHelpersGuardNullModel ==
    [][ (returned' # returned /\ returned'.did = "null_model") =>
          (returned'.value = "empty" /\ engine' = engine) ]_vars

\* C25 as stated: the tokens the worker has decoded in a session are never more
\* than the maxTokens its startGeneration was called with, whatever the caller
\* calls during the session.
C25_TokensWithinSessionMax ==
    wpc # "none" => t <= sessionMax

\* a ratio is 0; a ratio is at most another; a ratio lies in [0,1]
RatioIsZero(r) == r.den > 0 /\ r.num = 0
RatioLeq(a, b) == a.den > 0 /\ b.den > 0 /\ a.num * b.den <= b.num * a.den
RatioInUnit(r) == r.den > 0 /\ 0 <= r.num /\ r.num <= r.den

\* C26 as stated: the fill ratio is 0 right after the resetContext() a session
\* begins with, and from there to the end of the session no step lowers it.
C26_FillRisesFromZero ==
    [][ /\ (wpc = "begin" /\ wpc' # "begin") => RatioIsZero(getContextFillRatio')
        /\ (PastReset /\ PastReset') =>
              RatioLeq(getContextFillRatio, getContextFillRatio') ]_vars

\* C27 as stated: whenever the frame loop reads getContextFillRatio() during a
\* session, from right after the context reset on, the value lies in [0,1].
C27_FillRatioInUnit ==
    (ctx /\ PastReset) => RatioInUnit(getContextFillRatio)

\* the tokens of a sequence of batches, in the order of submission
RECURSIVE Submitted(_)
Submitted(bs) == IF bs = <<>> THEN <<>> ELSE Head(bs) \o Submitted(Tail(bs))

\* C28: while the prompt is processed the batches submitted so far hold the
\* prompt tokens 0..n_past-1, each once and in order, token k at position k, no
\* batch empty or larger than llama_n_batch; once the token loop is reached all
\* ntokens prompt tokens have been submitted, and logits were requested for the
\* last prompt token, the final token of the final batch, and for no other.
C28_PromptBatches ==
    (PastReset /\ ntokens > 0) =>
        LET flat == Submitted(batches)
        IN  /\ \A b \in 1..Len(batches) : Len(batches[b]) \in 1..N_BATCH
            /\ Len(flat) = (IF wpc = "prompt" THEN n_past ELSE ntokens)
            /\ \A k \in 1..Len(flat) :
                  /\ flat[k].token = k - 1
                  /\ flat[k].pos = k - 1
                  /\ flat[k].logits <=> (k = ntokens)
            /\ wpc # "prompt" =>
                  /\ Cardinality({k \in 1..Len(flat) : flat[k].logits}) = 1
                  /\ batches[Len(batches)][Len(batches[Len(batches)])].logits

\* a prompt that took more than one batch has been processed
C28_Witness ==
    /\ wpc = "loop"
    /\ Len(batches) > 1
    /\ Len(Submitted(batches)) = ntokens

\* C29: an iteration of the token loop takes its steps in this order: the stop
\* flag is tested before anything is sampled; the sampled token is tested for
\* end-of-sequence, and if it is one the loop is left with nothing appended;
\* otherwise its fragment is appended to pendingOut and to the accumulated text;
\* then the stop words are tested, and a match leaves the loop with the token
\* not decoded; only then is the token decoded, which ends the iteration.
C29_TokenLoopOrder ==
    [][ /\ (wpc = "loop" /\ wpc' # "loop") =>
              /\ wpc' \in {"sample", "finish"}
              /\ requestStop => wpc' = "finish"
              /\ pendingOut' = pendingOut /\ generated' = generated /\ n_past' = n_past
        /\ (wpc = "sample" /\ wpc' # "sample") =>
              /\ n_past' = n_past
              /\ IF script = <<>>
                 THEN /\ wpc' = "finish"
                      /\ pendingOut' = pendingOut /\ generated' = generated
                 ELSE /\ wpc' = "check"
                      /\ pendingOut' = pendingOut \o Head(script)
                      /\ generated' = generated \o Head(script)
        /\ (wpc = "check" /\ wpc' # "check") =>
              /\ wpc' = (IF checkStopSequences(generated) THEN "finish" ELSE "decode")
              /\ generated' = generated /\ n_past' = n_past
        /\ (wpc = "decode" /\ wpc' # "decode") =>
              /\ wpc' \in {"loop", "done"}
              /\ generated' = generated
              /\ wpc' = "loop" => n_past' = n_past + 1
        /\ (wpc' = "finish" /\ wpc # "finish") =>
              n_past' = ntokens' + t'
      ]_vars

\* a session has left the loop on a stop word: the fragment that completed it
\* is in the accumulated text, and its token was not decoded
C29_Witness ==
    /\ wpc = "finish"
    /\ checkStopSequences(generated)
    /\ t > 0
    /\ n_past = ntokens + t

\* C30 as stated: a stop flag set at any point before the first token of the
\* session is sampled, the prompt processing in particular, lets no text out;
\* set later, it lets at most one further fragment out.
C30_StopBeforeFirstSample ==
    [][ (/\ requestStop /\ t = 0
         /\ wpc \in {"prompt", "loop", "sample"}
         /\ generated = <<>>) => generated' = <<>> ]_vars

\* C30, amended: a stop flag set before the thread's first test of the flag
\* (line 465), the prompt processing in particular, lets no text out; set
\* later, even before the first sample, it lets at most one further fragment
\* out before the thread leaves the loop.
C30_StopBeforeFirstTest ==
    [][ /\ (/\ requestStop /\ t = 0
            /\ wpc \in {"prompt", "loop"}
            /\ generated = <<>>) => (generated' = <<>> /\ wpc' # "sample")
        /\ (requestStop /\ wpc # "sample") =>
              /\ generated' = generated \/ generated' = <<>>
              /\ Len(pendingOut') <= Len(pendingOut)
              /\ requestStop' => wpc' # "sample"
        /\ (requestStop /\ ~requestStop') => wpc \in {"none", "done"}
        /\ (requestStop /\ wpc = "sample" /\ wpc' # "sample") =>
              /\ wpc' \in {"check", "finish"}
              /\ Len(generated') <= Len(generated) + Len(Head(script \o <<PieceNone>>))
      ]_vars

\* the flag was set after the first test and before the first sample, and the
\* session's first fragment came out all the same
C30_Witness ==
    /\ requestStop
    /\ wpc = "check"
    /\ t = 0
    /\ generated # <<>>

C32_InputOnlyInChatting ==
    [][ (\/ input /\ ~input'
         \/ currentState = "CHATTING" /\ currentState' # "CHATTING"
         \/ cpc = "idle" /\ cpc' = "start_join"
         \/ /\ Len(chatHistory') = Len(chatHistory) + 1
            /\ chatHistory'[Len(chatHistory')].isUser) =>
            (/\ cpc = "idle" /\ ready /\ input
             /\ currentState = "CHATTING"
             /\ ~input'
             /\ chatHistory'[Len(chatHistory')] = UserMsg(UserText)
             /\ currentState' \in {"GENERATING_REPLY", "SUMMARIZING"}
             /\ cpc' = "start_join") ]_vars

\* input is typed while a summarization session runs: Enter does nothing
C32_Witness ==
    /\ cpc = "idle"
    /\ ready
    /\ input
    /\ currentState = "SUMMARIZING"
    /\ alive = 1

\* C33 as stated: when update() runs the finished-session transition, every
\* fragment the session's worker emitted is where it belongs: after a reply
\* session the assistant message holds the accumulated text of the session
\* (there is no assistant message only if the session emitted nothing), and
\* after a summarization session the stored Summary is the accumulated text.
C33_NoFragmentLost ==
    [][ /\ (/\ cpc = "upd_check"
            /\ currentState = "GENERATING_REPLY"
            /\ currentState' = "CHATTING") =>
               (IF LastIsAssistant THEN LastContent ELSE <<>>) = generated
        /\ (/\ cpc = "upd_check"
            /\ currentState = "SUMMARIZING"
            /\ currentState' = "GENERATING_REPLY") =>
               (temp_summary_output = generated /\ conversationSummary' = generated)
      ]_vars

\* C34 as stated: with the worker and the frame loop scheduled fairly and no
\* stop requested, a reply session that was started is followed by the state
\* CHATTING: some update() detects that the worker has exited.
C34_CompletionDetected ==
    (currentState = "GENERATING_REPLY") ~> (currentState = "CHATTING")

\* C35 as stated: a step that removes messages from the history of a running
\* conversation stores a Summary that is not empty; and the step that follows a
\* summarization session with no output leaves the Summary and the history as
\* they were.
C35_PruneNeedsSummary ==
    [][ /\ (/\ currentState = "SUMMARIZING"
            /\ Len(chatHistory') < Len(chatHistory)
            /\ chatHistory' # <<>>) => conversationSummary' # <<>>
        /\ (/\ cpc = "upd_check"
            /\ currentState = "SUMMARIZING"
            /\ wasGenerating /\ ~isGenerating
            /\ temp_summary_output = <<>>) =>
               (/\ conversationSummary' = conversationSummary
                /\ chatHistory' = chatHistory)
      ]_vars

\* C37: when startGeneration returns with a session started, the thread of the
\* previous session has exited and pendingOut is empty; from then on text gets
\* into pendingOut only as a fragment the one running thread has just added to
\* the text of its session; so every getNewOutput() result is a part of the
\* text of the session started last, the part that follows the earlier results.
C37_NoLeakAcrossSessions ==
    [][ /\ (cpc = "start_join" /\ cpc' # "start_join") =>
              (/\ alive = 0 /\ alive' = 1
               /\ pendingOut' = <<>>
               /\ generated' = <<>>)
        /\ (pendingOut' # pendingOut /\ pendingOut' # <<>>) =>
              (/\ alive = 1 /\ wpc = "sample"
               /\ LET piece == Head(script \o <<PieceNone>>)
                  IN  /\ pendingOut' = pendingOut \o piece
                      /\ generated' = generated \o piece)
        /\ (cpc = "idle" /\ cpc' = "idle" /\ polled' # polled) =>
              (/\ polled' = polled \o pendingOut
               /\ Len(polled') <= Len(generated)
               /\ SubSeq(generated, 1, Len(polled')) = polled')
      ]_vars

\* a session started after an earlier one had ended has emitted text that is
\* still to be polled
C37_Witness ==
    /\ ended # {}
    /\ alive = 1
    /\ wpc = "check"
    /\ polled = <<>>
    /\ pendingOut # <<>>
    /\ pendingOut = generated

\* C36: a stop requested in SUMMARIZING changes neither the Summary nor the
\* history, from the request to the return of ofApp::stopGeneration: nothing is
\* pruned, no marker is appended, what the session has produced is not stored;
\* the state is CHATTING afterwards and the last message of the history is the
\* user message whose submission started the summarization.
C36_StopKeepsSummaryAndHistory ==
    [][ (/\ currentState = "SUMMARIZING"
         /\ \/ cpc = "idle" /\ cpc' = "stop_join"
            \/ cpc = "stop_join") =>
            (/\ conversationSummary' = conversationSummary
             /\ chatHistory' = chatHistory
             /\ chatHistory[Len(chatHistory)] = UserMsg(UserText)
             /\ cpc' = "idle" => (currentState' = "CHATTING" /\ alive' = 0)) ]_vars

\* a summarization that had produced text was stopped: the text is not the
\* Summary and the twelve messages are all there
C36_Witness ==
    /\ cpc = "idle"
    /\ currentState = "CHATTING"
    /\ requestStop /\ ~worker
    /\ temp_summary_output # <<>>
    /\ conversationSummary = <<>>
    /\ Len(chatHistory) = CHAT_HISTORY_LIMIT + SUMMARY_INTERVAL
    /\ chatHistory[Len(chatHistory)] = UserMsg(UserText)

\* C38 as stated: when the worker is about to sample, a decode of its session
\* has requested logits: the last prompt batch, or the decode of the token
\* sampled before; a prompt of zero tokens does not get the worker there.
C38_SampleHasLogits ==
    wpc = "sample" =>
        \/ t > 0
        \/ \E k \in 1..Len(Submitted(batches)) : Submitted(batches)[k].logits

====
